---------------------------- MODULE Spec2Model ----------------------------
(***************************************************************************)
(* Note2Pic: the rich-text layout engine (line wrapper and inline markup   *)
(* resolver of src/src/render.ts) and the render call (renderAll with its  *)
(* overlay compositor, as called by the generate_simple tool).             *)
(*                                                                         *)
(* Text is a sequence of one-character strings (one UTF-16 code unit       *)
(* each), indexed from 0 by the code and from 1 by TLA+: content[i] of the *)
(* code is content[i + 1] here.                                            *)
(***************************************************************************)
EXTENDS Integers, Sequences, FiniteSets, TLC

VARIABLES
    \* splitIntoInlineSafeLines: its arguments and its locals
    content, charsPerLine, i, visible, buf, openStack, lines,
    \* parseInline: its argument and its locals
    text, pi, pbuf, stack, spans,
    \* drawRichBlock: its maxLines, the spans it fills each line with, and
    \* the y it fills each line at
    maxLines, fills, lineY,
    \* which function runs and where it is
    pc,
    \* a render call: the tool's arguments, the RenderRequest, the merged
    \* configuration, the template's asset pool
    toolInput, request, appcfg, assets,
    \* renderAll: where it is, the surface and the page it is on
    rpc, surface, page,
    \* drawOverlays: its layers and its locals
    layers, layerIdx, count, chosenAssets, inst, img,
    \* what was called on the surfaces and the file system, in order
    ops,
    \* what the last overlay instance was drawn with
    drawn,
    \* the file system: the template images that exist, the assets that do
    \* not load, and what was created and written, in order
    present, broken, fsLog,
    \* renderAll: its output directory, and the error it is rejected with
    outDir, error,
    \* renderAll: the paths of the pages it wrote, and the result it returns
    textOutputs, result,
    \* concurrent render calls: the configuration objects on the heap (the
    \* first is the module's config), and each call's request, place, the
    \* object its appcfg refers to and its resolved layers
    heap, calls

textVars == <<content, charsPerLine, i, visible, buf, openStack, lines,
              text, pi, pbuf, stack, spans, maxLines, fills, lineY, pc>>

renderVars == <<toolInput, request, appcfg, assets, rpc, surface, page,
                layers, layerIdx, count, chosenAssets, inst, img, ops, drawn,
                present, broken, fsLog, outDir, error, textOutputs, result>>

callVars == <<heap, calls>>

vars == <<textVars, renderVars, callVars>>

-----------------------------------------------------------------------------
(* Bounds of the model *)

\* the most fragments an enumerated input is made of
MaxTokens == 3
\* the largest character budget tried (0, the degenerate budget, included)
MaxBudget == 3
\* the render calls in flight at once
NumCalls == 2
\* the most assets a template's pool holds
MaxPool == 2
\* the largest instance count a request asks of a layer
MaxCount == 3

-----------------------------------------------------------------------------
(* String helpers: what the JavaScript string methods used by the code do *)

\* whitespace and line terminators removed by String.prototype.trim
WhiteSpace == {" ", "\n", "\t"}

\* s.slice(from, to), 0-based, to exclusive
Slice(s, from, to) == SubSeq(s, from + 1, to)

\* s.slice(from)
SliceFrom(s, from) == SubSeq(s, from + 1, Len(s))

\* s.indexOf(c, from): the first 0-based index >= from holding c, or -1
IndexOf(s, c, from) ==
    LET hits == {k \in from..(Len(s) - 1) : s[k + 1] = c}
    IN  IF hits = {} THEN -1 ELSE CHOOSE k \in hits : \A m \in hits : k <= m

\* s.trim()
Trim(s) ==
    LET keep == {k \in 1..Len(s) : s[k] \notin WhiteSpace}
    IN  IF keep = {} THEN <<>>
        ELSE LET lo == CHOOSE k \in keep : \A m \in keep : k <= m
                 hi == CHOOSE k \in keep : \A m \in keep : k >= m
             IN  SubSeq(s, lo, hi)

\* s.startsWith(p)
StartsWith(s, p) == Len(s) >= Len(p) /\ SubSeq(s, 1, Len(p)) = p

Digits == {"0", "1", "2", "3", "4", "5", "6", "7", "8", "9"}

DigitVal(d) ==
    CASE d = "0" -> 0 [] d = "1" -> 1 [] d = "2" -> 2 [] d = "3" -> 3
      [] d = "4" -> 4 [] d = "5" -> 5 [] d = "6" -> 6 [] d = "7" -> 7
      [] d = "8" -> 8 [] d = "9" -> 9

RECURSIVE DecimalVal(_)
DecimalVal(s) ==
    IF s = <<>> THEN 0
    ELSE 10 * DecimalVal(SubSeq(s, 1, Len(s) - 1)) + DigitVal(s[Len(s)])

\* Number(s) for the texts the model draws, as [isNaN, val]: blank text is 0,
\* a run of decimal digits is its value, anything else is NaN
ToNumber(s) ==
    LET t == Trim(s)
    IN  IF t = <<>> THEN [isNaN |-> FALSE, val |-> 0]
        ELSE IF \A k \in 1..Len(t) : t[k] \in Digits
        THEN [isNaN |-> FALSE, val |-> DecimalVal(t)]
        ELSE [isNaN |-> TRUE, val |-> 0]

\* the lines of a sequence of texts joined into one text
RECURSIVE Concat(_)
Concat(ss) == IF ss = <<>> THEN <<>> ELSE Head(ss) \o Concat(Tail(ss))

-----------------------------------------------------------------------------
(* splitIntoInlineSafeLines (the line wrapper) *)

OpenC == <<"c", ":">>
OpenS == <<"s", ":">>
CloseC == <<"/", "c">>
CloseS == <<"/", "s">>

isOpenTag(tag) == StartsWith(tag, OpenC) \/ StartsWith(tag, OpenS)

isCloseTag(tag) == tag = CloseC \/ tag = CloseS

closeTokenFor(openTok) ==
    IF StartsWith(openTok, OpenC) THEN <<"<", "/", "c", ">">>
    ELSE IF StartsWith(openTok, OpenS) THEN <<"<", "/", "s", ">">>
    ELSE <<>>

openTokenToTag(openTok) == <<"<">> \o openTok \o <<">">>

\* ClosersOf with the bottom entry first
RECURSIVE ClosersBottomFirst(_)
ClosersBottomFirst(stk) ==
    IF stk = <<>> THEN <<>>
    ELSE closeTokenFor(Head(stk)) \o ClosersBottomFirst(Tail(stk))

\* the closing tokens of the stack's entries, top first
RECURSIVE ClosersOf(_)
ClosersOf(stk) ==
    IF stk = <<>> THEN <<>>
    ELSE closeTokenFor(stk[Len(stk)]) \o ClosersOf(SubSeq(stk, 1, Len(stk) - 1))

\* openStack.map(openTokenToTag).join("")
RECURSIVE OpenersOf(_)
OpenersOf(stk) ==
    IF stk = <<>> THEN <<>>
    ELSE openTokenToTag(Head(stk)) \o OpenersOf(Tail(stk))

\* flushLine without its lines.push(buf): the buffer is restarted unrecorded
flushLineNoPush(w, force) ==
    IF Len(w.buf) > 0 \/ force
    THEN [w EXCEPT !.buf = OpenersOf(w.openStack), !.visible = 0]
    ELSE w

\* flushLine(force) on the wrapper's locals w = [i, visible, buf, openStack, lines]
flushLine(w, force) ==
    IF Len(w.buf) > 0 \/ force
    THEN [w EXCEPT !.lines = Append(w.lines, w.buf \o ClosersOf(w.openStack)),
                   !.buf = OpenersOf(w.openStack),
                   !.visible = 0]
    ELSE w

\* PopMatching popping the top entry whatever its kind
PopTop(stk, expected) == SubSeq(stk, 1, Len(stk) - 1)

\* the open-tag stack after a close tag: the topmost entry of the expected
\* kind is spliced out, nothing when there is none
PopMatching(stk, expected) ==
    LET hits == {k \in 1..Len(stk) : StartsWith(stk[k], expected)}
    IN  IF hits = {} THEN stk
        ELSE LET top == CHOOSE k \in hits : \A m \in hits : k >= m
             IN  SubSeq(stk, 1, top - 1) \o SubSeq(stk, top + 1, Len(stk))

\* WrapChar breaking one character late: visible > charsPerLine
WrapCharLate(c, n, w) ==
    LET f == IF w.visible > n THEN flushLine(w, FALSE) ELSE w
    IN  [f EXCEPT !.buf = f.buf \o <<c[w.i + 1]>>,
                  !.visible = f.visible + 1,
                  !.i = w.i + 1]

\* a plain character: break first when the budget is used up
WrapChar(c, n, w) ==
    LET f == IF w.visible + 1 > n THEN flushLine(w, FALSE) ELSE w
    IN  [f EXCEPT !.buf = f.buf \o <<c[w.i + 1]>>,
                  !.visible = f.visible + 1,
                  !.i = w.i + 1]

\* a bracketed token from i to closeIdx
WrapBracket(c, n, w, closeIdx) ==
    LET rawTag == Trim(Slice(c, w.i + 1, closeIdx))
        token  == Slice(c, w.i, closeIdx + 1)
    IN  IF isOpenTag(rawTag)
        THEN [w EXCEPT !.buf = w.buf \o openTokenToTag(rawTag),
                       !.openStack = Append(w.openStack, rawTag),
                       !.i = closeIdx + 1]
        ELSE IF isCloseTag(rawTag)
        THEN [w EXCEPT !.buf = w.buf \o openTokenToTag(rawTag),
                       !.openStack = PopMatching(w.openStack,
                                        IF rawTag = CloseC THEN OpenC ELSE OpenS),
                       !.i = closeIdx + 1]
        ELSE LET f == IF w.visible + Len(token) > n
                      THEN flushLine(w, FALSE) ELSE w
             IN  [f EXCEPT !.buf = f.buf \o token,
                           !.visible = f.visible + Len(token),
                           !.i = closeIdx + 1]

\* WrapStep without the i++ of its newline branch
WrapStepStuck(c, n, w) ==
    LET ch == c[w.i + 1]
    IN  IF ch = "\n"
        THEN flushLine(w, TRUE)
        ELSE IF ch = "<" /\ IndexOf(c, ">", w.i) # -1
        THEN WrapBracket(c, n, w, IndexOf(c, ">", w.i))
        ELSE WrapChar(c, n, w)

\* one iteration of the scan loop, i < content.length
WrapStep(c, n, w) ==
    LET ch == c[w.i + 1]
    IN  IF ch = "\n"
        THEN [flushLine(w, TRUE) EXCEPT !.i = w.i + 1]
        ELSE IF ch = "<" /\ IndexOf(c, ">", w.i) # -1
        THEN WrapBracket(c, n, w, IndexOf(c, ">", w.i))
        ELSE WrapChar(c, n, w)

\* WrapEnd pushing the last line only when a tag is open
WrapEndOpenOnly(w) ==
    IF Len(w.openStack) > 0
    THEN [w EXCEPT !.buf = w.buf \o ClosersOf(w.openStack),
                   !.lines = Append(w.lines, w.buf \o ClosersOf(w.openStack))]
    ELSE w

\* after the loop: the last line, closed
WrapEnd(w) ==
    IF Len(w.buf) > 0 \/ Len(w.openStack) > 0
    THEN [w EXCEPT !.buf = w.buf \o ClosersOf(w.openStack),
                   !.lines = Append(w.lines, w.buf \o ClosersOf(w.openStack))]
    ELSE w

WrapStart == [i |-> 0, visible |-> 0, buf |-> <<>>, openStack |-> <<>>, lines |-> <<>>]

\* the scan loop run from the locals w to its end
RECURSIVE WrapLoop(_, _, _)
WrapLoop(c, n, w) ==
    IF ~(w.i < Len(c)) THEN w ELSE WrapLoop(c, n, WrapStep(c, n, w))

\* splitIntoInlineSafeLines(c, n): the lines it returns
splitIntoInlineSafeLines(c, n) == WrapEnd(WrapLoop(c, n, WrapStart)).lines


-----------------------------------------------------------------------------
(* parseInline (the markup resolver) *)

\* the base style drawRichBlock resolves a page's lines with
BaseColor == <<"#", "0">>
BaseFontSize == 36
BaseStyle == [color |-> BaseColor, fontSize |-> BaseFontSize]

ParseStart(base) ==
    [pi |-> 0, pbuf |-> <<>>, stack |-> <<base>>, spans |-> <<>>, err |-> FALSE]

\* pushBuf(): reading the top of an empty stack is a TypeError
pushBuf(p) ==
    IF p.pbuf = <<>> THEN p
    ELSE IF p.stack = <<>> THEN [p EXCEPT !.err = TRUE]
    ELSE LET top == p.stack[Len(p.stack)]
         IN  [p EXCEPT !.spans = Append(p.spans, [text |-> p.pbuf,
                                                   color |-> top.color,
                                                   fontSize |-> top.fontSize]),
                       !.pbuf = <<>>]

\* ParseClose leaving an emptied stack empty
ParseCloseNoRestore(base, p, closeIdx) ==
    LET q == pushBuf(p)
    IN  [q EXCEPT !.stack = IF q.stack = <<>> THEN <<>>
                            ELSE SubSeq(q.stack, 1, Len(q.stack) - 1),
                  !.pi = closeIdx + 1]

\* a close tag: the top frame is popped, whatever opened it; an emptied
\* stack gets the popped frame back
ParseClose(base, p, closeIdx) ==
    LET q    == pushBuf(p)
        prev == IF q.stack = <<>> THEN base ELSE q.stack[Len(q.stack)]
        rest == IF q.stack = <<>> THEN <<>> ELSE SubSeq(q.stack, 1, Len(q.stack) - 1)
    IN  [q EXCEPT !.stack = IF rest = <<>> THEN <<prev>> ELSE rest,
                  !.pi = closeIdx + 1]

\* an open tag: a copy of the top frame with the colour or the size replaced
ParseOpen(p, tag, closeIdx) ==
    LET q == pushBuf(p)
    IN  IF q.stack = <<>> THEN [q EXCEPT !.err = TRUE]
        ELSE LET top == q.stack[Len(q.stack)]
                 num == ToNumber(SliceFrom(tag, 2))
                 col == IF StartsWith(tag, OpenC)
                        THEN [top EXCEPT !.color = SliceFrom(tag, 2)] ELSE top
                 frm == IF StartsWith(tag, OpenS) /\ ~num.isNaN /\ num.val > 0
                        THEN [col EXCEPT !.fontSize = num.val] ELSE col
             IN  [q EXCEPT !.stack = Append(q.stack, frm), !.pi = closeIdx + 1]

\* the kinds of the tags open at position stop of t, the innermost last, a
\* close tag closing the innermost when it is of its kind
RECURSIVE KindsOpen(_, _, _, _)
KindsOpen(t, k, stop, kinds) ==
    IF k >= stop THEN kinds
    ELSE LET closeIdx == IndexOf(t, ">", k)
             tag      == Trim(Slice(t, k + 1, closeIdx))
         IN  IF t[k + 1] = "<" /\ closeIdx # -1
             THEN KindsOpen(t, closeIdx + 1, stop,
                      IF tag = CloseC \/ tag = CloseS
                      THEN IF kinds # <<>> /\ kinds[Len(kinds)] = tag[2]
                           THEN SubSeq(kinds, 1, Len(kinds) - 1) ELSE kinds
                      ELSE IF StartsWith(tag, OpenC) \/ StartsWith(tag, OpenS)
                      THEN Append(kinds, tag[1])
                      ELSE kinds)
             ELSE KindsOpen(t, k + 1, stop, kinds)

\* ParseStep popping a frame only for a close tag of the kind that opened it
ParseStepTyped(t, base, p) ==
    LET closeIdx == IndexOf(t, ">", p.pi)
        tag      == Trim(Slice(t, p.pi + 1, closeIdx))
        kinds    == KindsOpen(t, 0, p.pi, <<>>)
    IN  IF t[p.pi + 1] = "<" /\ closeIdx # -1
        THEN IF tag = CloseC \/ tag = CloseS
             THEN IF kinds # <<>> /\ kinds[Len(kinds)] = tag[2]
                  THEN ParseClose(base, p, closeIdx)
                  ELSE [pushBuf(p) EXCEPT !.pi = closeIdx + 1]
             ELSE IF StartsWith(tag, OpenC) \/ StartsWith(tag, OpenS)
             THEN ParseOpen(p, tag, closeIdx)
             ELSE [p EXCEPT !.pbuf = p.pbuf \o Slice(t, p.pi, closeIdx + 1),
                            !.pi = closeIdx + 1]
        ELSE [p EXCEPT !.pbuf = p.pbuf \o <<t[p.pi + 1]>>, !.pi = p.pi + 1]

\* one iteration of the scan loop, i < text.length
ParseStep(t, base, p) ==
    LET closeIdx == IndexOf(t, ">", p.pi)
        tag      == Trim(Slice(t, p.pi + 1, closeIdx))
    IN  IF t[p.pi + 1] = "<" /\ closeIdx # -1
        THEN IF tag = CloseC \/ tag = CloseS THEN ParseClose(base, p, closeIdx)
             ELSE IF StartsWith(tag, OpenC) \/ StartsWith(tag, OpenS)
             THEN ParseOpen(p, tag, closeIdx)
             ELSE [p EXCEPT !.pbuf = p.pbuf \o Slice(t, p.pi, closeIdx + 1),
                            !.pi = closeIdx + 1]
        ELSE [p EXCEPT !.pbuf = p.pbuf \o <<t[p.pi + 1]>>, !.pi = p.pi + 1]

\* after the loop: the last span
ParseEnd(p) == pushBuf(p)

\* the scan loop run from the locals p to its end
RECURSIVE ParseLoop(_, _, _)
ParseLoop(t, base, p) ==
    IF p.err \/ ~(p.pi < Len(t)) THEN p ELSE ParseLoop(t, base, ParseStep(t, base, p))

\* parseInline(t, base): its locals when it returns
parseInline(t, base) == ParseEnd(ParseLoop(t, base, ParseStart(base)))

-----------------------------------------------------------------------------
(* The inputs *)

\* the pieces enumerated inputs are made of: a plain character, a newline,
\* the two open and the two close tags, an unrecognized bracket token, and a
\* lone "<"
Fragments ==
    { <<"a">>, <<"\n">>,
      <<"<", "c", ":", "r", ">">>, <<"<", "/", "c", ">">>,
      <<"<", "s", ":", "9", ">">>, <<"<", "/", "s", ">">>,
      <<"<", "x", ">">>, <<"<">> }

TokenSeqs == UNION {[1..k -> Fragments] : k \in 0..MaxTokens}

EnumInputs == {Concat(ts) : ts \in TokenSeqs}

\* "ab<c:#ff0000>cd</c>ef", the example of the wrapper's contract
ExampleText ==
    <<"a", "b", "<", "c", ":", "#", "f", "f", "0", "0", "0", "0", ">",
      "c", "d", "<", "/", "c", ">", "e", "f">>

\* "<c:r><s:9></c>ab</s>": balanced markup whose tags are not nested
InterleavedText ==
    <<"<", "c", ":", "r", ">", "<", "s", ":", "9", ">", "<", "/", "c", ">",
      "a", "b", "<", "/", "s", ">">>

\* "<c:r><s:9>aa": two characters inside two tags of different kinds
NestedText ==
    <<"<", "c", ":", "r", ">", "<", "s", ":", "9", ">", "a", "a">>

\* "<c:r></c></c>a": a character after more close tags than open tags
SurplusText ==
    <<"<", "c", ":", "r", ">", "<", "/", "c", ">", "<", "/", "c", ">", "a">>

\* the inputs given in full, beside the enumerated ones
GivenTexts == {InterleavedText, NestedText, SurplusText}

Budgets == 0..MaxBudget

-----------------------------------------------------------------------------
(* Optional values and numbers *)

\* an optional property: absent, or holding one value
None == <<>>
Some(x) == <<x>>
IsSome(o) == o # <<>>
Get(o) == o[1]

\* a number n/d, d > 0
Q(n, d) == [n |-> n, d |-> d]

\* Math.floor
Floor(q) == q.n \div q.d

Max(a, b) == IF a >= b THEN a ELSE b
Min(a, b) == IF a <= b THEN a ELSE b

Abs(a) == IF a < 0 THEN 0 - a ELSE a

RECURSIVE Gcd(_, _)
Gcd(a, b) == IF b = 0 THEN a ELSE Gcd(b, a % b)

\* the number n/d in lowest terms, d > 0
QNorm(n, d) ==
    LET g == Gcd(Abs(n), Abs(d))
        s == IF d < 0 THEN 0 - 1 ELSE 1
    IN  Q((s * n) \div g, (s * d) \div g)

\* the arithmetic of the numbers: +, -, *, <=, Math.max, Math.min
QAdd(a, b) == QNorm(a.n * b.d + b.n * a.d, a.d * b.d)
QSub(a, b) == QNorm(a.n * b.d - b.n * a.d, a.d * b.d)
QMul(a, b) == QNorm(a.n * b.n, a.d * b.d)
QLe(a, b) == a.n * b.d <= b.n * a.d
QMax(a, b) == IF QLe(b, a) THEN a ELSE b
QMin(a, b) == IF QLe(a, b) THEN a ELSE b

-----------------------------------------------------------------------------
(* config.ts: the base configuration *)

\* an OverlayPosition with no property set: {}
NoPos ==
    [asset |-> None, x |-> None, y |-> None, scale |-> None, rotation |-> None,
     alpha |-> None]

overlayTemplate ==
    [enable |-> TRUE, count |-> Q(2, 1), positions |-> <<NoPos, NoPos>>,
     randomize |-> TRUE,
     scaleRange    |-> <<Q(1, 10), Q(1, 5)>>,
     rotationRange |-> <<Q(0 - 15, 1), Q(15, 1)>>,
     alphaRange    |-> <<Q(3, 4), Q(1, 1)>>]

pageTemplate == [text |-> ""]

NumPages == 7

config ==
    [title   |-> <<[text |-> ""], [text |-> "hello"], [text |-> "world!"]>>,
     pages   |-> [k \in 1..NumPages |-> pageTemplate],
     overlay |-> <<overlayTemplate>>,
     image   |-> [width |-> Q(1080, 1), height |-> Q(1350, 1)],
     output  |-> [directory |-> <<"output">>]]

-----------------------------------------------------------------------------
(* Paths: a path is the sequence of its segments, from the root *)

\* path.normalize of segments appended to an absolute path: an empty
\* segment and "." are dropped, ".." drops the segment before it
RECURSIVE Normalize(_, _)
Normalize(done, rest) ==
    IF rest = <<>> THEN done
    ELSE LET seg == Head(rest)
         IN  IF seg \in {"", "."} THEN Normalize(done, Tail(rest))
             ELSE IF seg = ".."
             THEN Normalize(SubSeq(done, 1, Len(done) - 1), Tail(rest))
             ELSE Normalize(Append(done, seg), Tail(rest))

\* path.join(dir, segs) and path.resolve(dir, segs) for an absolute dir and
\* a relative path of segments
PathJoin(dir, segs) == Normalize(<<>>, dir \o segs)

\* path.resolve(__dirname, "../../")
PROJECT_ROOT == <<"app">>

\* the directory of the template: baseDir "./template", name "default"
TemplateBase == PathJoin(PROJECT_ROOT, <<".", "template", "default">>)

\* the three background images a template must have
TemplateImages == {"cover.png", "text.png", "ending.png"}

\* the path of an asset of the template
AssetPath(name) == PathJoin(TemplateBase, <<"assets", name>>)

\* the absolute output directory of a merged configuration
OutputBase(cfg) == PathJoin(PROJECT_ROOT, cfg.output.directory)

\* loadTemplateImages finding every image in place
MissingTemplatesNone(there) == {}

\* the template images fs.stat does not find
MissingTemplates(there) == TemplateImages \ there

FsOp(name, path) == [op |-> name, path |-> path]

-----------------------------------------------------------------------------
(* render.ts: applyOverrides, cloneOverlay, resolveOverlay *)

\* Object.assign(style, partial) for a partial text style
AssignStyle(style, partial) ==
    [style EXCEPT !.text = IF IsSome(partial.text) THEN Get(partial.text) ELSE @]

\* Object.assign(layer, partial) for a partial overlay layer
AssignOverlay(layer, partial) ==
    [layer EXCEPT !.enable    = IF IsSome(partial.enable) THEN Get(partial.enable) ELSE @,
                  !.count     = IF IsSome(partial.count) THEN Get(partial.count) ELSE @,
                  !.positions = IF IsSome(partial.positions) THEN Get(partial.positions) ELSE @,
                  !.randomize = IF IsSome(partial.randomize) THEN Get(partial.randomize) ELSE @,
                  !.scaleRange = IF IsSome(partial.scaleRange) THEN Get(partial.scaleRange) ELSE @]

\* partials.forEach((partial, i) => { if (arr[i]) assign(arr[i], partial) })
PatchEach(arr, partials, assign(_, _)) ==
    [k \in 1..Len(arr) |-> IF k <= Len(partials) THEN assign(arr[k], partials[k])
                           ELSE arr[k]]

applyOverrides(base, req) ==
    LET ov == req.overrides
    IN  [base EXCEPT
            !.title   = IF IsSome(ov.title) THEN PatchEach(@, Get(ov.title), AssignStyle) ELSE @,
            !.pages   = IF IsSome(ov.pages) THEN PatchEach(@, Get(ov.pages), AssignStyle) ELSE @,
            !.overlay = IF IsSome(ov.overlay) THEN PatchEach(@, Get(ov.overlay), AssignOverlay) ELSE @]

\* cloneOverlay(base, patch): patch is optional
cloneOverlay(base, patch) ==
    IF ~IsSome(patch) THEN base ELSE PatchEach(base, Get(patch), AssignOverlay)

\* resolveOverlay(base, patch): an absent or empty patch list gives the
\* base layers back
resolveOverlay(base, patch) ==
    IF ~IsSome(patch) \/ Len(Get(patch)) = 0
    THEN cloneOverlay(base, None)
    ELSE cloneOverlay(base, patch)

-----------------------------------------------------------------------------
(* render.ts: chooseAssets and drawOverlays *)

\* Swap writing the entry at b over the one at a, and no more
SwapCopy(arr, a, b) == [arr EXCEPT ![a + 1] = arr[b + 1]]

\* the array with the entries at 0-based a and b exchanged
Swap(arr, a, b) == [arr EXCEPT ![a + 1] = arr[b + 1], ![b + 1] = arr[a + 1]]

\* the Fisher-Yates loop from index k down to 1, js[k] being
\* Math.floor(Math.random() * (k + 1))
RECURSIVE Shuffle(_, _, _)
Shuffle(arr, js, k) ==
    IF k <= 0 THEN arr ELSE Shuffle(Swap(arr, k, js[k]), js, k - 1)

\* the values the random draws of one shuffle of n entries can take
RandomJs(n) == [1..Max(0, n - 1) -> 0..Max(0, n - 1)]

ValidJs(js) == \A k \in DOMAIN js : js[k] <= k

\* FillChosen without the loop that fills up to n
FillChosenNoWrap(shuffled, n) == SubSeq(shuffled, 1, Min(n, Len(shuffled)))

\* the chosen assets: the first n of the shuffled pool, then the shuffled
\* pool over again until there are n
FillChosen(shuffled, n) ==
    [k \in 1..n |-> shuffled[((k - 1) % Len(shuffled)) + 1]]

\* chooseAssets(pool, n, true), js being its random draws
chooseAssets(pool, n, js) ==
    IF n <= 0 \/ Len(pool) = 0 THEN <<>>
    ELSE FillChosen(Shuffle(pool, js, Len(pool) - 1), n)

\* InstanceCount rounding up instead of down
InstanceCountCeil(layer) == Max(0, 0 - Floor(Q(0 - layer.count.n, layer.count.d)))

\* Math.max(0, Math.floor(layer.count))
InstanceCount(layer) == Max(0, Floor(layer.count))

\* assetsPool.find(..): the first asset of the pool with the overriding name
FindAsset(pool, name) ==
    LET hits == {k \in 1..Len(pool) : pool[k] = name}
    IN  IF hits = {} THEN None
        ELSE Some(pool[CHOOSE k \in hits : \A m \in hits : k <= m])

\* the asset of instance k (0-based): the override found in the pool, else
\* the chosen asset, else none
AssetOf(layer, pool, chosen, k) ==
    LET pos   == IF k + 1 <= Len(layer.positions) THEN layer.positions[k + 1]
                 ELSE NoPos
        found == IF IsSome(pos.asset) THEN FindAsset(pool, Get(pos.asset)) ELSE None
    IN  IF IsSome(found) THEN found
        ELSE IF k + 1 <= Len(chosen) THEN Some(chosen[k + 1]) ELSE None

Op(name, on, what, n) == [op |-> name, on |-> on, what |-> what, n |-> n]

\* randBetween(a, b), r being its Math.random(), 0 <= r < 1
randBetween(a, b, r) ==
    LET lo == QMin(a, b)
        hi == QMax(a, b)
    IN  QAdd(lo, QMul(r, QSub(hi, lo)))

\* the random draws the model lets one instance make, for the scale, the
\* rotation, the alpha, x and y: all low, all high, and mixed
RandomDraws ==
    { [k \in 1..5 |-> Q(0, 1)],
      [k \in 1..5 |-> Q(3, 4)],
      [k \in 1..5 |-> IF k \in {1, 3, 5} THEN Q(3, 4) ELSE Q(0, 1)] }

\* (layer.positions && layer.positions[i]) ? layer.positions[i] : {}
PosOf(layer, k) ==
    IF k + 1 <= Len(layer.positions) THEN layer.positions[k + 1] ELSE NoPos

\* pos.v ?? (layer.randomize ? randBetween(range[0], range[1]) : dflt)
ValueOr(v, layer, range, r, dflt) ==
    IF IsSome(v) THEN Get(v)
    ELSE IF layer.randomize THEN randBetween(range[1], range[2], r)
    ELSE dflt

\* InstancePlace without the Math.max(0, ..) that clamps the room
InstancePlaceUnclamped(given, other, layer, room, r) ==
    IF IsSome(given) /\ IsSome(other) THEN Get(given)
    ELSE IF layer.randomize THEN randBetween(Q(0, 1), room, r)
    ELSE IF IsSome(given) THEN Get(given)
    ELSE Q(0, 1)

\* the coordinate of an instance: the given one when both x and y are
\* given, else a random one within the room left, else the given one or 0
InstancePlace(given, other, layer, room, r) ==
    IF IsSome(given) /\ IsSome(other) THEN Get(given)
    ELSE IF layer.randomize THEN randBetween(Q(0, 1), QMax(Q(0, 1), room), r)
    ELSE IF IsSome(given) THEN Get(given)
    ELSE Q(0, 1)

\* InstanceGeometry taking an explicit value only when it is not 0
InstanceGeometryTruthy(layer, pos, image, canvas, rnd) ==
    LET truthy(v) == IF v = Some(Q(0, 1)) THEN None ELSE v
        scale == ValueOr(truthy(pos.scale), layer, layer.scaleRange, rnd[1], Q(1, 1))
        w     == QMul(image.width, scale)
        h     == QMul(image.height, scale)
    IN  [scale  |-> scale,
         rotDeg |-> ValueOr(truthy(pos.rotation), layer, layer.rotationRange, rnd[2], Q(0, 1)),
         alpha  |-> ValueOr(truthy(pos.alpha), layer, layer.alphaRange, rnd[3], Q(1, 1)),
         w |-> w, h |-> h,
         x |-> InstancePlace(pos.x, pos.y, layer, QSub(canvas.width, w), rnd[4]),
         y |-> InstancePlace(pos.y, pos.x, layer, QSub(canvas.height, h), rnd[5])]

\* what an instance is drawn with: its scale, rotation and alpha, its scaled
\* size and its place, rnd being the random draws
InstanceGeometry(layer, pos, image, canvas, rnd) ==
    LET scale == ValueOr(pos.scale, layer, layer.scaleRange, rnd[1], Q(1, 1))
        w     == QMul(image.width, scale)
        h     == QMul(image.height, scale)
    IN  [scale  |-> scale,
         rotDeg |-> ValueOr(pos.rotation, layer, layer.rotationRange, rnd[2], Q(0, 1)),
         alpha  |-> ValueOr(pos.alpha, layer, layer.alphaRange, rnd[3], Q(1, 1)),
         w |-> w, h |-> h,
         x |-> InstancePlace(pos.x, pos.y, layer, QSub(canvas.width, w), rnd[4]),
         y |-> InstancePlace(pos.y, pos.x, layer, QSub(canvas.height, h), rnd[5])]

\* the size of the image loadImage gives for an asset
ImageSize(asset) ==
    IF asset = "a2.png" THEN [width |-> Q(6000, 1), height |-> Q(9000, 1)]
    ELSE [width |-> Q(400, 1), height |-> Q(300, 1)]

-----------------------------------------------------------------------------
(* The inputs of a render call *)

AssetNames == <<"a1.png", "a2.png", "a3.png", "a4.png">>

\* the surfaces of the content pages
PageNames == <<"text_1", "text_2", "text_3", "text_4", "text_5", "text_6", "text_7">>

\* the asset pools: the first k assets of the template
Pools == {SubSeq(AssetNames, 1, k) : k \in 0..MaxPool}

NoOverrides == [title |-> None, pages |-> None, overlay |-> None]

NoPatch ==
    [enable |-> None, count |-> None, positions |-> None, randomize |-> None,
     scaleRange |-> None]

\* the instance counts a request gives a layer: below zero, zero, a
\* fraction, and whole numbers
Counts == {Q(0 - 1, 1), Q(0, 1), Q(1, 2), Q(3, 2)} \cup {Q(k, 1) : k \in 1..MaxCount}

\* the partial layers a request patches with
Patches ==
    {[NoPatch EXCEPT !.enable = Some(FALSE)]}
    \cup {[NoPatch EXCEPT !.count = Some(c)] : c \in Counts}
    \cup {[NoPatch EXCEPT !.positions = Some(<<[NoPos EXCEPT !.asset = Some("a2.png")]>>)]}

PatchLists == {None, Some(<<>>)} \cup {Some(<<pt>>) : pt \in Patches}

\* the arguments of generate_simple
ToolInputs ==
    [titleDir       : {<<"out">>},
     title          : {<<"T1", "T2", "T3">>, <<"", "hello", "world!">>},
     pages          : {<<"P1">>, <<"P1", "P2">>},
     disableOverlay : {None, Some(TRUE), Some(FALSE)}]

NoToolInput ==
    [titleDir |-> <<>>, title |-> <<>>, pages |-> <<>>, disableOverlay |-> None]

\* the texts a POST /render payload overrides the configured ones with
TextOverrides ==
    { NoOverrides,
      [NoOverrides EXCEPT !.title = Some(<<[text |-> Some("T1")]>>),
                          !.pages = Some(<<[text |-> Some("P1")]>>)],
      [NoOverrides EXCEPT !.pages = Some(<<[text |-> None], [text |-> Some("P2")]>>)] }

\* the payloads of POST /render: one patch list, given for the cover, for
\* the first page, for the ending, or as an override of the configuration
HttpRequests ==
    { [titleDir      |-> <<"out">>,
       overrides     |-> IF target = "config" /\ IsSome(pl)
                         THEN [ov EXCEPT !.overlay = pl] ELSE ov,
       titleTexts    |-> None,
       pages         |-> None,
       overlayCover  |-> IF target = "cover" THEN pl ELSE None,
       overlayPages  |-> IF target = "pages" THEN Some(<<pl>>) ELSE None,
       overlayEnding |-> IF target = "ending" THEN pl ELSE None]
      : pl \in PatchLists, ov \in TextOverrides,
        target \in {"cover", "pages", "ending", "config"} }

\* the position overrides that give an instance its geometry: scale,
\* rotation and alpha all 0, all three other than 0, x and y, x alone
GeometryPositions ==
    { [NoPos EXCEPT !.scale = Some(Q(0, 1)), !.rotation = Some(Q(0, 1)),
                    !.alpha = Some(Q(0, 1))],
      [NoPos EXCEPT !.scale = Some(Q(2, 1)), !.rotation = Some(Q(90, 1)),
                    !.alpha = Some(Q(1, 2))],
      [NoPos EXCEPT !.x = Some(Q(10, 1)), !.y = Some(Q(20, 1))],
      [NoPos EXCEPT !.x = Some(Q(10, 1))] }

\* the partial layers that bear on the geometry, with the layer's randomize
\* flag left as it is or cleared
GeometryPatches ==
    { [NoPatch EXCEPT !.positions = Some(<<ps>>), !.randomize = rz]
      : ps \in GeometryPositions, rz \in {None, Some(FALSE)} }
    \cup { [NoPatch EXCEPT !.randomize = Some(FALSE)],
           [NoPatch EXCEPT !.scaleRange = Some(<<Q(2, 1), Q(1, 1)>>)] }

NoRequest ==
    [titleDir |-> <<>>, overrides |-> NoOverrides, titleTexts |-> None, pages |-> None,
     overlayCover |-> None, overlayPages |-> None, overlayEnding |-> None]

\* the titleDir of a payload, by its segments: "out", "a/b", "../x",
\* "a/../../b", "/etc"
TitleDirs ==
    { <<"out">>, <<"a", "b">>, <<"..", "x">>, <<"a", "..", "..", "b">>, <<"", "etc">> }

\* the payloads of POST /render that give nothing but a titleDir
PathRequests == {[NoRequest EXCEPT !.titleDir = t] : t \in TitleDirs}

\* the payloads of POST /render that patch the geometry of the cover's layer
GeometryRequests ==
    { [NoRequest EXCEPT !.titleDir = <<"out">>, !.overlayCover = Some(<<pt>>)]
      : pt \in GeometryPatches }

\* the payloads of POST /render that give every configured page a text, or
\* the second and the seventh page alone, and switch the layer off
PageRequests ==
    { [NoRequest EXCEPT
          !.titleDir = <<"out">>,
          !.overrides = [NoOverrides EXCEPT
            !.overlay = Some(<<[NoPatch EXCEPT !.enable = Some(FALSE)]>>),
            !.pages = Some(
              [q \in 1..NumPages |->
                  [text |-> IF q \in given THEN Some(PageNames[q]) ELSE None]])]]
      : given \in {1..NumPages, {2, NumPages}} }

\* the payloads of POST /render that switch the cover's layer off, and the
\* first page's too or not: what the call loads first is an asset of a page
\* or of the ending
FailureRequests ==
    LET off == Some(<<[NoPatch EXCEPT !.enable = Some(FALSE)]>>)
    IN  { [r EXCEPT !.overlayPages = op]
          : r \in {h \in HttpRequests : h.overlayCover = off},
            op \in {None, Some(<<off>>)} }

-----------------------------------------------------------------------------
(* The render machine: one generate_simple call or one POST /render *)

WrapIdle ==
    /\ content = <<>> /\ charsPerLine = 0
    /\ i = 0 /\ visible = 0 /\ buf = <<>> /\ openStack = <<>> /\ lines = <<>>

ParseIdle ==
    /\ text = <<>> /\ pi = 0 /\ pbuf = <<>> /\ stack = <<>> /\ spans = <<>>

BlockIdle == maxLines = None /\ fills = <<>> /\ lineY = <<>>

RenderLocalsIdle ==
    /\ appcfg = config /\ surface = "" /\ page = 0
    /\ layers = <<>> /\ layerIdx = 0 /\ count = 0 /\ chosenAssets = <<>>
    /\ inst = 0 /\ img = None /\ ops = <<>> /\ drawn = None
    /\ fsLog = <<>> /\ outDir = <<>> /\ error = None
    /\ textOutputs = <<>> /\ result = None

RenderIdle ==
    /\ toolInput = NoToolInput /\ request = NoRequest /\ assets = <<>>
    /\ rpc = "idle"
    /\ present = {} /\ broken = {}
    /\ RenderLocalsIdle

TextIdle == pc = "idle" /\ WrapIdle /\ ParseIdle /\ BlockIdle

\* a generate_simple call arrives
InitTool ==
    /\ rpc = "tool"
    /\ toolInput \in ToolInputs
    /\ request = NoRequest
    /\ assets \in Pools
    /\ present = TemplateImages /\ broken = {}
    /\ RenderLocalsIdle

\* a POST /render arrives
InitHttp ==
    /\ rpc = "renderAll"
    /\ toolInput = NoToolInput
    /\ assets \in Pools
    /\ \/ /\ request \in HttpRequests \cup GeometryRequests \cup PageRequests
          /\ present = TemplateImages /\ broken = {}
       \/ /\ request \in PathRequests \cup FailureRequests
          /\ present \in SUBSET TemplateImages
          /\ broken \in {{}, {"a1.png"}}
    /\ RenderLocalsIdle

\* no concurrent calls: the heap holds the module's config alone
CallsIdle == heap = <<config>> /\ calls = <<>>

RInit == (InitTool \/ InitHttp) /\ TextIdle /\ CallsIdle

\* the request generate_simple builds from its arguments
SimpleRequest(input) ==
    LET plain == [NoRequest EXCEPT !.titleDir = input.titleDir,
                                   !.titleTexts = Some(input.title),
                                   !.pages = Some(input.pages)]
    IN  IF input.disableOverlay = Some(TRUE)
        THEN [plain EXCEPT !.overlayCover = Some(<<>>),
                           !.overlayPages = Some(<<>>),
                           !.overlayEnding = Some(<<>>)]
        ELSE plain

\* the CallToolRequestSchema handler up to its call of renderAll
GenerateSimple ==
    /\ rpc = "tool"
    /\ request' = SimpleRequest(toolInput)
    /\ rpc' = "renderAll"
    /\ UNCHANGED <<toolInput, appcfg, assets, surface, page,
                   layers, layerIdx, count, chosenAssets, inst, img, ops>>
    /\ UNCHANGED <<textVars, callVars, drawn, present, broken, fsLog, outDir, error>>
    /\ UNCHANGED <<textOutputs, result>>

\* drawOverlays is entered for a surface with its resolved layers
EnterOverlays(name, cfg, patch, base) ==
    /\ surface' = name
    /\ layers' = resolveOverlay(cfg.overlay, patch)
    /\ layerIdx' = 0
    /\ ops' = Append(ops, Op("drawImage", name, base, 0))
    /\ rpc' = "layer"

\* renderAll up to the cover's drawOverlays
RenderCover ==
    /\ rpc = "renderAll"
    /\ appcfg' = applyOverrides(config, request)
    /\ IF MissingTemplates(present) # {}
       THEN \* Promise.all rejects with the first stat found to fail
            /\ \E f \in MissingTemplates(present) :
                  error' = Some(PathJoin(TemplateBase, <<f>>))
            /\ rpc' = "error"
            /\ UNCHANGED <<surface, layers, layerIdx, ops, outDir, fsLog>>
       ELSE /\ outDir' = PathJoin(OutputBase(appcfg'), request.titleDir)
            /\ fsLog' = Append(fsLog, FsOp("mkdirSync", outDir'))
            /\ EnterOverlays("cover", appcfg', request.overlayCover, "cover.png")
            /\ UNCHANGED error
    /\ UNCHANGED <<toolInput, request, assets, page, count, chosenAssets, inst, img>>
    /\ UNCHANGED <<textVars, callVars, drawn, present, broken>>
    /\ UNCHANGED <<textOutputs, result>>

\* for (const layer of layers): a disabled layer and a layer of no instance
\* are passed over, for any other the assets are chosen
NextLayer ==
    /\ rpc = "layer"
    /\ layerIdx < Len(layers)
    /\ LET layer == layers[layerIdx + 1]
       IN  IF ~layer.enable \/ InstanceCount(layer) = 0
           THEN /\ layerIdx' = layerIdx + 1
                /\ UNCHANGED <<rpc, count, chosenAssets, inst, ops>>
           ELSE /\ count' = InstanceCount(layer)
                /\ \E js \in RandomJs(Len(assets)) :
                      /\ ValidJs(js)
                      /\ chosenAssets' = chooseAssets(assets, InstanceCount(layer), js)
                /\ ops' = Append(ops, Op("chooseAssets", surface, "", InstanceCount(layer)))
                /\ inst' = 0
                /\ rpc' = "instance"
                /\ UNCHANGED layerIdx
    /\ UNCHANGED <<toolInput, request, appcfg, assets, surface, page, layers, img>>
    /\ UNCHANGED <<textVars, callVars, drawn, present, broken, fsLog, outDir, error>>
    /\ UNCHANGED <<textOutputs, result>>

\* LoadInstance not awaiting loadImage: the next instance's load is issued
\* while this one is in flight
LoadInstanceNoAwait ==
    /\ rpc = "instance"
    /\ inst < count
    /\ LET assetPath == AssetOf(layers[layerIdx + 1], assets, chosenAssets, inst)
       IN  ops' = IF IsSome(assetPath)
                  THEN Append(ops, Op("loadImage", surface, Get(assetPath), inst))
                  ELSE ops
    /\ inst' = inst + 1
    /\ UNCHANGED <<rpc, img, error>>
    /\ UNCHANGED <<toolInput, request, appcfg, assets, surface, page,
                   layers, layerIdx, count, chosenAssets>>
    /\ UNCHANGED <<textVars, callVars, drawn, present, broken, fsLog, outDir>>
    /\ UNCHANGED <<textOutputs, result>>

\* LoadInstance going on to the next instance when loadImage rejects
LoadInstanceGoesOn ==
    /\ rpc = "instance"
    /\ inst < count
    /\ LET assetPath == AssetOf(layers[layerIdx + 1], assets, chosenAssets, inst)
       IN  IF ~IsSome(assetPath)
           THEN /\ inst' = inst + 1
                /\ UNCHANGED <<rpc, img, ops, error>>
           ELSE /\ ops' = Append(ops, Op("loadImage", surface, Get(assetPath), inst))
                /\ IF Get(assetPath) \in broken
                   THEN /\ error' = Some(AssetPath(Get(assetPath)))
                        /\ inst' = inst + 1
                        /\ UNCHANGED <<rpc, img>>
                   ELSE /\ img' = assetPath
                        /\ rpc' = "loaded"
                        /\ UNCHANGED <<error, inst>>
    /\ UNCHANGED <<toolInput, request, appcfg, assets, surface, page,
                   layers, layerIdx, count, chosenAssets>>
    /\ UNCHANGED <<textVars, callVars, drawn, present, broken, fsLog, outDir>>
    /\ UNCHANGED <<textOutputs, result>>

\* for (let i = 0; i < count; i++): an instance without an asset is passed
\* over, for any other the image load is awaited
LoadInstance ==
    /\ rpc = "instance"
    /\ inst < count
    /\ LET assetPath == AssetOf(layers[layerIdx + 1], assets, chosenAssets, inst)
       IN  IF ~IsSome(assetPath)
           THEN /\ inst' = inst + 1
                /\ UNCHANGED <<rpc, img, ops, error>>
           ELSE /\ ops' = Append(ops, Op("loadImage", surface, Get(assetPath), inst))
                /\ IF Get(assetPath) \in broken
                   THEN \* loadImage rejects: drawOverlays and renderAll do
                        /\ rpc' = "error"
                        /\ error' = Some(AssetPath(Get(assetPath)))
                        /\ UNCHANGED img
                   ELSE /\ img' = assetPath
                        /\ rpc' = "loaded"
                        /\ UNCHANGED error
                /\ UNCHANGED inst
    /\ UNCHANGED <<toolInput, request, appcfg, assets, surface, page,
                   layers, layerIdx, count, chosenAssets>>
    /\ UNCHANGED <<textVars, callVars, drawn, present, broken, fsLog, outDir>>
    /\ UNCHANGED <<textOutputs, result>>

\* the loaded image is drawn
DrawInstance ==
    /\ rpc = "loaded"
    /\ \E rnd \in RandomDraws :
          LET layer == layers[layerIdx + 1]
          IN  drawn' = Some(InstanceGeometry(layer, PosOf(layer, inst),
                                             ImageSize(Get(img)), appcfg.image, rnd))
    /\ ops' = Append(ops, Op("drawOverlay", surface, Get(img), inst))
    /\ img' = None
    /\ inst' = inst + 1
    /\ rpc' = "instance"
    /\ UNCHANGED <<toolInput, request, appcfg, assets, surface, page,
                   layers, layerIdx, count, chosenAssets>>
    /\ UNCHANGED <<textVars, callVars, present, broken, fsLog, outDir, error>>
    /\ UNCHANGED <<textOutputs, result>>

\* the layer's instances are done
EndLayer ==
    /\ rpc = "instance"
    /\ ~(inst < count)
    /\ layerIdx' = layerIdx + 1
    /\ rpc' = "layer"
    /\ UNCHANGED <<toolInput, request, appcfg, assets, surface, page,
                   layers, count, chosenAssets, inst, img, ops>>
    /\ UNCHANGED <<textVars, callVars, drawn, present, broken, fsLog, outDir, error>>
    /\ UNCHANGED <<textOutputs, result>>

\* t.text || "" of every title block, in order
TitleOps ==
    [k \in 1..Len(appcfg.title) |-> Op("drawRichBlock", "cover", appcfg.title[k].text, k)]

\* Math.max(1, Math.min(pages.length || 1, 6))
PageLimit == 6
PageCount ==
    Max(1, Min(IF Len(appcfg.pages) = 0 THEN 1 ELSE Len(appcfg.pages), PageLimit))

PageFiles ==
    <<"text_1.png", "text_2.png", "text_3.png", "text_4.png", "text_5.png",
      "text_6.png", "text_7.png">>

\* the cover's overlays are drawn: its title blocks are drawn and it is written
WriteCover ==
    /\ rpc = "layer" /\ surface = "cover"
    /\ ~(layerIdx < Len(layers))
    /\ ops' = ops \o TitleOps \o <<Op("writeFile", "cover", "cover.png", 0)>>
    /\ page' = 0
    /\ rpc' = "pages"
    /\ UNCHANGED <<toolInput, request, appcfg, assets, surface,
                   layers, layerIdx, count, chosenAssets, inst, img>>
    /\ fsLog' = Append(fsLog, FsOp("writeFile", PathJoin(outDir, <<"cover.png">>)))
    /\ UNCHANGED <<textVars, callVars, drawn, present, broken, outDir, error>>
    /\ UNCHANGED <<textOutputs, result>>

\* request.overlayPages?.[p]
PagePatch(req, k) ==
    IF IsSome(req.overlayPages) /\ k + 1 <= Len(Get(req.overlayPages))
    THEN Get(req.overlayPages)[k + 1] ELSE None

\* for (let p = 0; p < pageCount; p++): a page without text is passed over,
\* any other gets its surface and its overlays
NextPage ==
    /\ rpc = "pages"
    /\ page < PageCount
    /\ IF appcfg.pages[page + 1].text = ""
       THEN /\ page' = page + 1
            /\ UNCHANGED <<rpc, surface, layers, layerIdx, ops>>
       ELSE /\ EnterOverlays(PageNames[page + 1], appcfg, PagePatch(request, page),
                             "text.png")
            /\ UNCHANGED page
    /\ UNCHANGED <<toolInput, request, appcfg, assets, count, chosenAssets, inst, img>>
    /\ UNCHANGED <<textVars, callVars, drawn, present, broken, fsLog, outDir, error>>
    /\ UNCHANGED <<textOutputs, result>>

\* the page's overlays are drawn: its text is drawn and it is written
WritePage ==
    /\ rpc = "layer" /\ surface \notin {"cover", "ending"}
    /\ ~(layerIdx < Len(layers))
    /\ ops' = ops \o <<Op("drawRichBlock", surface, appcfg.pages[page + 1].text, page + 1),
                       Op("writeFile", surface, PageFiles[page + 1], 0)>>
    /\ page' = page + 1
    /\ rpc' = "pages"
    /\ UNCHANGED <<toolInput, request, appcfg, assets, surface,
                   layers, layerIdx, count, chosenAssets, inst, img>>
    /\ fsLog' = Append(fsLog, FsOp("writeFile", PathJoin(outDir, <<PageFiles[page + 1]>>)))
    /\ textOutputs' = Append(textOutputs, PathJoin(outDir, <<PageFiles[page + 1]>>))
    /\ UNCHANGED <<textVars, callVars, drawn, present, broken, outDir, error, result>>

\* the pages are done: the ending gets its surface and its overlays
RenderEnding ==
    /\ rpc = "pages"
    /\ ~(page < PageCount)
    /\ EnterOverlays("ending", appcfg, request.overlayEnding, "ending.png")
    /\ UNCHANGED <<toolInput, request, appcfg, assets, page, count, chosenAssets,
                   inst, img>>
    /\ UNCHANGED <<textVars, callVars, drawn, present, broken, fsLog, outDir, error>>
    /\ UNCHANGED <<textOutputs, result>>

\* the ending's overlays are drawn: it is written and renderAll returns
WriteEnding ==
    /\ rpc = "layer" /\ surface = "ending"
    /\ ~(layerIdx < Len(layers))
    /\ ops' = Append(ops, Op("writeFile", "ending", "ending.png", 0))
    /\ rpc' = "done"
    /\ UNCHANGED <<toolInput, request, appcfg, assets, surface, page,
                   layers, layerIdx, count, chosenAssets, inst, img>>
    /\ fsLog' = Append(fsLog, FsOp("writeFile", PathJoin(outDir, <<"ending.png">>)))
    /\ result' = Some([cover     |-> PathJoin(outDir, <<"cover.png">>),
                       texts     |-> textOutputs,
                       ending    |-> PathJoin(outDir, <<"ending.png">>),
                       outputDir |-> outDir])
    /\ UNCHANGED <<textVars, callVars, drawn, present, broken, outDir, error,
                   textOutputs>>

RNext ==
    \/ GenerateSimple \/ RenderCover
    \/ NextLayer \/ LoadInstance \/ DrawInstance \/ EndLayer
    \/ WriteCover \/ NextPage \/ WritePage \/ RenderEnding \/ WriteEnding

SpecRender == RInit /\ [][RNext]_vars

-----------------------------------------------------------------------------
(* Concurrent render calls and the configuration they share *)

\* structuredClone(obj) giving obj itself back instead of a copy
structuredCloneAlias(h, obj, fresh) == [heap |-> h, ref |-> obj]

\* structuredClone(obj): a deep copy of the object, at a place of its own
structuredClone(h, obj, fresh) == [heap |-> [h EXCEPT ![fresh] = h[obj]], ref |-> fresh]

\* applyOverrides(config, req) on the heap: the overrides are assigned to
\* the object structuredClone gave, which is what the call gets
applyOverridesOn(h, req, fresh) ==
    LET c == structuredClone(h, 1, fresh)
    IN  [heap |-> [c.heap EXCEPT ![c.ref] = applyOverrides(c.heap[c.ref], req)],
         ref  |-> c.ref]

\* the payloads of the concurrent calls: overrides of the texts and of the
\* layer's count, and a patch of the cover's layer
CallRequests ==
    { [NoRequest EXCEPT !.titleDir = <<"out">>,
                        !.overrides = [ov EXCEPT !.overlay = po]]
      : ov \in TextOverrides,
        po \in {None, Some(<<[NoPatch EXCEPT !.count = Some(Q(1, 1))]>>)} }
    \cup { [NoRequest EXCEPT !.titleDir = <<"out">>,
                             !.overlayCover = Some(<<[NoPatch EXCEPT !.positions = Some(<<>>)]>>)] }

NoCall == [rpc |-> "idle", request |-> NoRequest, appcfg |-> 1, layers |-> <<>>]

CInit ==
    /\ heap = [o \in 1..(NumCalls + 1) |-> config]
    /\ calls = [c \in 1..NumCalls |-> NoCall]
    /\ RenderIdle /\ TextIdle

\* a render call arrives
CallArrives(c) ==
    /\ calls[c].rpc \in {"idle", "done"}
    /\ \E r \in CallRequests :
          calls' = [calls EXCEPT ![c] = [NoCall EXCEPT !.rpc = "renderAll", !.request = r]]
    /\ UNCHANGED <<heap, textVars, renderVars>>

\* const appcfg = applyOverrides(config, request), up to the first await
CallApplies(c) ==
    /\ calls[c].rpc = "renderAll"
    /\ LET r == applyOverridesOn(heap, calls[c].request, c + 1)
       IN  /\ heap' = r.heap
           /\ calls' = [calls EXCEPT ![c].appcfg = r.ref, ![c].rpc = "cover"]
    /\ UNCHANGED <<textVars, renderVars>>

\* resolveOverlay(appcfg.overlay, ..) for the cover, the pages, the ending,
\* each followed by an await
CallResolves(c) ==
    /\ calls[c].rpc \in {"cover", "pages", "ending"}
    /\ LET call  == calls[c]
           patch == CASE call.rpc = "cover" -> call.request.overlayCover
                      [] call.rpc = "pages" -> PagePatch(call.request, 0)
                      [] OTHER -> call.request.overlayEnding
       IN  calls' = [calls EXCEPT
                        ![c].layers = resolveOverlay(heap[call.appcfg].overlay, patch),
                        ![c].rpc = CASE call.rpc = "cover" -> "pages"
                                     [] call.rpc = "pages" -> "ending"
                                     [] OTHER -> "done"]
    /\ UNCHANGED <<heap, textVars, renderVars>>

CNext ==
    \E c \in 1..NumCalls : CallArrives(c) \/ CallApplies(c) \/ CallResolves(c)

SpecCalls == CInit /\ [][CNext]_vars

-----------------------------------------------------------------------------
(* The text machine: one call of the wrapper, or one call of the resolver *)

WrapLocals ==
    [i |-> i, visible |-> visible, buf |-> buf, openStack |-> openStack,
     lines |-> lines]

ParseLocals ==
    [pi |-> pi, pbuf |-> pbuf, stack |-> stack, spans |-> spans, err |-> FALSE]

\* splitIntoInlineSafeLines(content, charsPerLine) is entered
InitWrap ==
    /\ pc = "wrap"
    /\ \/ content \in EnumInputs /\ charsPerLine \in Budgets
       \/ content = ExampleText /\ charsPerLine = 4
       \/ content \in GivenTexts /\ charsPerLine \in Budgets
    /\ i = 0 /\ visible = 0 /\ buf = <<>> /\ openStack = <<>> /\ lines = <<>>
    /\ ParseIdle /\ BlockIdle

\* parseInline(text, base) is entered
InitParse ==
    /\ pc = "parse"
    /\ text \in EnumInputs \cup GivenTexts
    /\ pi = 0 /\ pbuf = <<>> /\ stack = <<BaseStyle>> /\ spans = <<>>
    /\ WrapIdle /\ BlockIdle

Init == (InitWrap \/ InitParse) /\ RenderIdle /\ CallsIdle

WrapIter ==
    /\ pc = "wrap"
    /\ i < Len(content)
    /\ LET w == WrapStep(content, charsPerLine, WrapLocals)
       IN  /\ i' = w.i /\ visible' = w.visible /\ buf' = w.buf
           /\ openStack' = w.openStack /\ lines' = w.lines
    /\ UNCHANGED <<content, charsPerLine, text, pi, pbuf, stack, spans, pc,
                   maxLines, fills, lineY>>
    /\ UNCHANGED <<renderVars, callVars>>

WrapReturn ==
    /\ pc = "wrap"
    /\ ~(i < Len(content))
    /\ LET w == WrapEnd(WrapLocals)
       IN  /\ buf' = w.buf /\ lines' = w.lines
    /\ pc' = "wrapped"
    /\ UNCHANGED <<content, charsPerLine, i, visible, openStack,
                   text, pi, pbuf, stack, spans, maxLines, fills, lineY>>
    /\ UNCHANGED <<renderVars, callVars>>

ParseIter ==
    /\ pc = "parse"
    /\ pi < Len(text)
    /\ LET p == ParseStep(text, BaseStyle, ParseLocals)
       IN  /\ pi' = p.pi /\ pbuf' = p.pbuf /\ stack' = p.stack /\ spans' = p.spans
           /\ pc' = IF p.err THEN "error" ELSE "parse"
    /\ UNCHANGED <<content, charsPerLine, i, visible, buf, openStack, lines, text,
                   maxLines, fills, lineY>>
    /\ UNCHANGED <<renderVars, callVars>>

ParseReturn ==
    /\ pc = "parse"
    /\ ~(pi < Len(text))
    /\ LET p == ParseEnd(ParseLocals)
       IN  /\ pbuf' = p.pbuf /\ spans' = p.spans
           /\ pc' = IF p.err THEN "error" ELSE "parsed"
    /\ UNCHANGED <<content, charsPerLine, i, visible, buf, openStack, lines,
                   text, pi, stack, maxLines, fills, lineY>>
    /\ UNCHANGED <<renderVars, callVars>>

\* the values drawRichBlock is given as maxLines
MaxLinesChoices == {None, Some(0), Some(1), Some(2)}

\* the y and the lineHeight of the block, those of a configured page
BlockY == 500
BlockLineHeight == 45

\* ShownLines whatever the maxLines
ShownLinesAll(all, ml) == all

\* allLines.slice(0, base.maxLines ?? allLines.length): an end below zero
\* counts from the end of the array
ShownLines(all, ml) ==
    IF ~IsSome(ml) THEN all
    ELSE IF Get(ml) < 0 THEN SubSeq(all, 1, Max(Len(all) + Get(ml), 0))
    ELSE SubSeq(all, 1, Min(Get(ml), Len(all)))

\* drawRichBlock after the wrapper returned: the lines are cut to maxLines
\* and each is resolved into the spans it is filled with
DrawBlock ==
    /\ pc = "wrapped"
    /\ \E ml \in MaxLinesChoices :
          LET shown  == ShownLines(lines, ml)
              parsed == [k \in 1..Len(shown) |-> parseInline(shown[k], BaseStyle)]
          IN  /\ maxLines' = ml
              /\ fills' = [k \in 1..Len(shown) |-> parsed[k].spans]
              /\ lineY' = [k \in 1..Len(shown) |-> BlockY + (k - 1) * BlockLineHeight]
              /\ pc' = IF \E k \in 1..Len(shown) : parsed[k].err THEN "error" ELSE "drawn"
    /\ UNCHANGED <<content, charsPerLine, i, visible, buf, openStack, lines,
                   text, pi, pbuf, stack, spans>>
    /\ UNCHANGED <<renderVars, callVars>>

Next == WrapIter \/ WrapReturn \/ DrawBlock \/ ParseIter \/ ParseReturn


Spec == Init /\ [][Next]_vars

-----------------------------------------------------------------------------
(* Reading a text as markup: the vocabulary of the properties *)

\* the tokens of t from 0-based position k on: a bracketed token runs from a
\* "<" to the next ">", and is an open or a close tag when its trimmed inside
\* is one; any other character is a token of its own
RECURSIVE LexFrom(_, _)
LexFrom(t, k) ==
    IF k >= Len(t) THEN <<>>
    ELSE LET close == IndexOf(t, ">", k)
             raw   == Trim(Slice(t, k + 1, close))
         IN  IF t[k + 1] = "<" /\ close # -1
             THEN <<[kind  |-> IF isOpenTag(raw) THEN "open"
                               ELSE IF isCloseTag(raw) THEN "close" ELSE "text",
                     chars |-> Slice(t, k, close + 1),
                     tag   |-> raw]>> \o LexFrom(t, close + 1)
             ELSE <<[kind  |-> IF t[k + 1] = "\n" THEN "newline" ELSE "text",
                     chars |-> <<t[k + 1]>>,
                     tag   |-> <<>>]>> \o LexFrom(t, k + 1)

Lex(t) == LexFrom(t, 0)

\* the visible characters of a run of tokens: tags and newlines left out
RECURSIVE VisibleOfTokens(_)
VisibleOfTokens(toks) ==
    IF toks = <<>> THEN <<>>
    ELSE (IF Head(toks).kind = "text" THEN Head(toks).chars ELSE <<>>)
         \o VisibleOfTokens(Tail(toks))

Visible(t) == VisibleOfTokens(Lex(t))

\* the visible characters of a sequence of lines, in order
RECURSIVE VisibleOfLines(_)
VisibleOfLines(ls) ==
    IF ls = <<>> THEN <<>> ELSE Visible(Head(ls)) \o VisibleOfLines(Tail(ls))

IsColourTag(tag) == StartsWith(tag, OpenC) \/ tag = CloseC

\* every close tag has an earlier open tag of its kind that is not yet
\* closed (dc, ds: the colour and size tags open so far)
RECURSIVE ClosesMatch(_, _, _)
ClosesMatch(toks, dc, ds) ==
    IF toks = <<>> THEN TRUE
    ELSE LET tk == Head(toks)
             c  == IsColourTag(tk.tag)
         IN  CASE tk.kind = "open" ->
                    ClosesMatch(Tail(toks), IF c THEN dc + 1 ELSE dc,
                                            IF c THEN ds ELSE ds + 1)
               [] tk.kind = "close" ->
                    /\ (IF c THEN dc ELSE ds) > 0
                    /\ ClosesMatch(Tail(toks), IF c THEN dc - 1 ELSE dc,
                                               IF c THEN ds ELSE ds - 1)
               [] OTHER -> ClosesMatch(Tail(toks), dc, ds)

\* the tags of kind colour (c = TRUE) or size among the tokens, by kind of token
CountTags(toks, kind, c) ==
    Cardinality({k \in 1..Len(toks) :
                    toks[k].kind = kind /\ IsColourTag(toks[k].tag) = c})

\* balanced markup: every close tag matches an earlier open tag of its kind
\* and every open tag is closed
Balanced(t) ==
    LET toks == Lex(t)
    IN  /\ ClosesMatch(toks, 0, 0)
        /\ \A c \in BOOLEAN : CountTags(toks, "open", c) = CountTags(toks, "close", c)

HasTag(t) == \E k \in 1..Len(Lex(t)) : Lex(t)[k].kind \in {"open", "close"}

HasNewline(t) == \E k \in 1..Len(t) : t[k] = "\n"

-----------------------------------------------------------------------------
(* The claims about the wrapper and the resolver *)

\* C1: for balanced markup and a budget N >= 1, the visible characters of
\* the returned lines, concatenated in order, are the visible characters of
\* the input (its newlines left out): none lost, duplicated or reordered.
C1_VisiblePreserved ==
    (pc = "wrapped" /\ charsPerLine >= 1 /\ Balanced(content))
        => VisibleOfLines(lines) = Visible(content)

\* a balanced input was broken inside a tag: a later line begins with the
\* re-opened tag
C1_Witness ==
    /\ pc = "wrapped" /\ charsPerLine >= 1 /\ Balanced(content)
    /\ Len(lines) >= 2
    /\ lines[2] # <<>> /\ Lex(lines[2])[1].kind = "open"
    /\ Visible(lines[1]) # <<>> /\ Visible(lines[2]) # <<>>

\* C2: for every input and every budget, each returned line is balanced
\* markup taken alone: every close tag follows a still-open tag of its kind
\* in the same line and every open tag is closed within the line.
C2_LinesBalanced ==
    pc = "wrapped" => \A k \in 1..Len(lines) : Balanced(lines[k])

\* C3: for a budget N >= 1 no returned line has more than N visible
\* characters, every character outside a recognized tag counting one.
C3_WithinBudget ==
    (pc = "wrapped" /\ charsPerLine >= 1)
        => \A k \in 1..Len(lines) : Len(Visible(lines[k])) <= charsPerLine

\* C4 as stated: wrap("ab<c:#ff0000>cd</c>ef", 4) returns
\* "ab<c:#ff0000>cd</c>" then "<c:#ff0000>ef</c>".
C4_ExampleAsStated ==
    (pc = "wrapped" /\ content = ExampleText /\ charsPerLine = 4)
        => lines = << SubSeq(ExampleText, 1, 19),
                      SubSeq(ExampleText, 3, 13) \o <<"e", "f">>
                          \o SubSeq(ExampleText, 16, 19) >>

\* C4 amended: wrap("ab<c:#ff0000>cd</c>ef", 4) returns "ab<c:#ff0000>cd</c>"
\* then "ef": the tag was closed by the input before the break, so nothing
\* is re-opened.
C4_Example ==
    (pc = "wrapped" /\ content = ExampleText /\ charsPerLine = 4)
        => lines = << SubSeq(ExampleText, 1, 19), <<"e", "f">> >>

C4_Witness ==
    pc = "wrapped" /\ content = ExampleText /\ charsPerLine = 4

\* C5 as stated: an input without markup or newline, no longer than the
\* budget, comes back as exactly one line equal to the input.
C5_OneLineAsStated ==
    (pc = "wrapped" /\ ~HasTag(content) /\ ~HasNewline(content)
                    /\ Len(content) <= charsPerLine)
        => lines = <<content>>

\* C5 amended: a non-empty input without markup or newline, no longer than
\* the budget, comes back as exactly one line equal to the input.
C5_OneLine ==
    (pc = "wrapped" /\ content # <<>> /\ ~HasTag(content) /\ ~HasNewline(content)
                    /\ Len(content) <= charsPerLine)
        => lines = <<content>>

\* an input that fills the budget exactly came back as one line
C5_Witness ==
    /\ pc = "wrapped" /\ ~HasTag(content) /\ ~HasNewline(content)
    /\ Len(content) = charsPerLine /\ Len(content) >= 2
    /\ lines = <<content>>

\* C6: wrapper and resolver end without an error on every input and budget:
\* each loop iteration moves the scan index forward, never past the end of
\* the text, so that there are at most as many iterations as characters, and
\* the loop is left only by returning, with the whole text scanned.
C6_Terminates ==
    [][ /\ pc' \in {"wrap", "parse", "wrapped", "parsed", "drawn"}
        /\ (pc = "wrap" /\ pc' = "wrap") => (i < i' /\ i' <= Len(content))
        /\ (pc = "parse" /\ pc' = "parse") => (pi < pi' /\ pi' <= Len(text))
        /\ (pc = "wrap" /\ pc' # "wrap") => (pc' = "wrapped" /\ i = Len(content))
        /\ (pc = "parse" /\ pc' # "parse") => (pc' = "parsed" /\ pi = Len(text))
      ]_vars

\* the wrapper returned for the budget 0 on an input with an unmatched close
\* tag, an unclosed open tag and an unterminated "<"
C6_Witness ==
    /\ pc = "wrapped" /\ charsPerLine = 0
    /\ ~ClosesMatch(Lex(content), 0, 0)
    /\ openStack # <<>>
    /\ content # <<>> /\ content[Len(content)] = "<"

\* the newline characters of a text
Newlines(t) == {k \in 1..Len(t) : t[k] = "\n"}

\* C17: every newline of the input forces a line break, even on an empty
\* buffer, so that there is a returned line for every newline, and no
\* returned line contains a newline.
C17_NewlineBreaks ==
    pc = "wrapped"
        => /\ Len(lines) >= Cardinality(Newlines(content))
           /\ \A k \in 1..Len(lines) : Newlines(lines[k]) = {}

\* the characters of a sequence of spans, each with the colour and the
\* font size of its span
RECURSIVE StyledChars(_)
StyledChars(sps) ==
    IF sps = <<>> THEN <<>>
    ELSE LET sp == Head(sps)
         IN  [k \in 1..Len(sp.text) |->
                 [ch |-> sp.text[k], color |-> sp.color, fontSize |-> sp.fontSize]]
             \o StyledChars(Tail(sps))

\* the styled characters the lines of a block are filled with, in order
RECURSIVE FilledChars(_)
FilledChars(fs) ==
    IF fs = <<>> THEN <<>> ELSE StyledChars(Head(fs)) \o FilledChars(Tail(fs))

\* the text the lines of a block are filled with
FilledText(fs) == [k \in 1..Len(FilledChars(fs)) |-> FilledChars(fs)[k].ch]

\* a "<" with no ">" after it
HasUnterminated(t) ==
    \E k \in 1..Len(t) : t[k] = "<" /\ IndexOf(t, ">", k - 1) = -1

\* C18: for an input with an unclosed open tag or an unterminated "<", the
\* text resolved from the wrapped lines is made of the input's characters
\* outside its tags, in order: the unterminated "<" is the one character
\* "<", and no tag the wrapper synthesized is text of a span.
C18_NoSynthesizedTagAsText ==
    ( /\ pc = "drawn" /\ maxLines = None
      /\ (openStack # <<>> \/ HasUnterminated(content)) )
        => FilledText(fills) = Visible(content)

\* the styled characters without the newlines
WithoutNewlines(cs) == SelectSeq(cs, LAMBDA c : c.ch # "\n")

\* C19: for balanced markup (nested or not) and a budget N >= 1, each
\* visible character is filled, after wrapping, with the colour and the font
\* size the resolver gives it in one pass over the unwrapped text.
C19_StyleIndependentOfWrapping ==
    (pc = "drawn" /\ maxLines = None /\ charsPerLine >= 1 /\ Balanced(content))
        => WithoutNewlines(FilledChars(fills))
             = WithoutNewlines(StyledChars(parseInline(content, BaseStyle).spans))

\* the trimmed inside of the bracket token the wrapper's scan stands on, or
\* the empty text when it stands on none
TagAtScan ==
    IF pc = "wrap" /\ i < Len(content) /\ content[i + 1] = "<"
                   /\ IndexOf(content, ">", i) # -1
    THEN Trim(Slice(content, i + 1, IndexOf(content, ">", i)))
    ELSE <<>>

\* the open-tag stack without its entry at position m
Without(stk, m) == [k \in 1..(Len(stk) - 1) |-> IF k < m THEN stk[k] ELSE stk[k + 1]]

\* C20: in the wrapper a recognized close tag removes from the open-tag
\* stack the entry nearest the top that is of the tag's kind, which need not
\* be the top one, and nothing when no entry is of that kind; in either case
\* the close tag is appended to the buffer.
C20_ClosePopsMatchingKind ==
    [][ isCloseTag(TagAtScan) =>
          LET kind == IF TagAtScan = CloseC THEN OpenC ELSE OpenS
              hits == {k \in 1..Len(openStack) : StartsWith(openStack[k], kind)}
          IN  /\ hits = {} => openStack' = openStack
              /\ hits # {} =>
                    \E m \in hits :
                        /\ \A k \in hits : k <= m
                        /\ openStack' = Without(openStack, m)
              /\ buf' = buf \o <<"<">> \o TagAtScan \o <<">">>
      ]_vars

\* after "<c:r><s:9></c>" the colour entry below the top is gone and the
\* size entry is left
C20_Witness ==
    /\ pc = "wrap" /\ i = 14
    /\ SubSeq(content, 1, 14) = SubSeq(InterleavedText, 1, 14)
    /\ openStack = <<OpenS \o <<"9">>>>
    /\ SubSeq(buf, Len(buf) - 3, Len(buf)) = <<"<", "/", "c", ">">>

\* the closing tokens of the open-tag stack, from its top to its bottom
StackClosers ==
    Concat([k \in 1..Len(openStack) |->
               IF openStack[Len(openStack) + 1 - k][1] = "c"
               THEN <<"<", "/", "c", ">">> ELSE <<"<", "/", "s", ">">>])

\* the opening tags of the open-tag stack, from its bottom to its top
StackOpeners ==
    Concat([k \in 1..Len(openStack) |-> <<"<">> \o openStack[k] \o <<">">>])

\* C23: at every line break the finished line is the buffer followed by the
\* closing token of every entry of the open-tag stack, from top to bottom;
\* the next line starts with the opening tags of the entries, from bottom to
\* top; the stack is left as it is; the visible counter restarts at zero,
\* so that it counts what the next line holds after its opening tags.
C23_LineBreak ==
    [][ (pc = "wrap" /\ pc' = "wrap" /\ Len(lines') > Len(lines))
        => /\ lines' = Append(lines, buf \o StackClosers)
           /\ StartsWith(buf', StackOpeners)
           /\ openStack' = openStack
           /\ visible' = Len(buf') - Len(StackOpeners)
      ]_vars

\* the budget 1 broke "<c:r><s:9>aa" between its two characters, inside
\* both tags
C23_Witness ==
    /\ pc = "wrap" /\ charsPerLine = 1
    /\ openStack = <<OpenC \o <<"r">>, OpenS \o <<"9">>>>
    /\ lines = << <<"<", "c", ":", "r", ">", "<", "s", ":", "9", ">", "a",
                    "<", "/", "s", ">", "<", "/", "c", ">">> >>
    /\ buf = <<"<", "c", ":", "r", ">", "<", "s", ":", "9", ">", "a">>
    /\ visible = 1

\* the tokens without the open and the close tags, as one text
RECURSIVE UntaggedOfTokens(_)
UntaggedOfTokens(toks) ==
    IF toks = <<>> THEN <<>>
    ELSE (IF Head(toks).kind \in {"open", "close"} THEN <<>> ELSE Head(toks).chars)
         \o UntaggedOfTokens(Tail(toks))

\* the text with all its c and s tags removed
StripTags(t) == UntaggedOfTokens(Lex(t))

\* C24: tags are zero-width for line breaking: for balanced markup and a
\* budget N >= 1, the returned lines, their tags removed, are the lines
\* returned for the input with its tags removed: as many lines, with the
\* same visible characters on each.
C24_TagsZeroWidth ==
    (pc = "wrapped" /\ charsPerLine >= 1 /\ Balanced(content))
        => [k \in 1..Len(lines) |-> StripTags(lines[k])]
             = splitIntoInlineSafeLines(StripTags(content), charsPerLine)

ParseTagAtScan ==
    IF pc = "parse" /\ pi < Len(text) /\ text[pi + 1] = "<"
                    /\ IndexOf(text, ">", pi) # -1
    THEN Trim(Slice(text, pi + 1, IndexOf(text, ">", pi)))
    ELSE <<>>

\* C21: in the resolver a close tag, /c or /s, pops the frame on top of the
\* style stack whatever tag opened it (the one frame of a stack of one is
\* left), so that </s> ends a frame <c:..> opened, and </c> one <s:..> opened.
C21_ClosePopsTop ==
    [][ isCloseTag(ParseTagAtScan) =>
          stack' = IF Len(stack) > 1 THEN SubSeq(stack, 1, Len(stack) - 1) ELSE stack
      ]_vars

\* "<c:r></s>a" was resolved: the </s> ended the colour's frame, and the "a"
\* has the base colour
C21_Witness ==
    /\ pc = "parsed"
    /\ text = <<"<", "c", ":", "r", ">", "<", "/", "s", ">", "a">>
    /\ stack = <<BaseStyle>>
    /\ spans = <<[text |-> <<"a">>, color |-> BaseColor, fontSize |-> BaseFontSize]>>

\* the text has an open tag
HasOpenTag(t) == LET toks == Lex(t) IN \E k \in 1..Len(toks) : toks[k].kind = "open"

\* C22: in the resolver the style stack is never empty, whatever tokens were
\* processed, more close tags than open tags included, and its bottom frame
\* is the base style: text that follows surplus close tags is emitted with
\* the base colour and font size.
C22_StackNeverEmpty ==
    pc \in {"parse", "parsed"}
        => /\ stack # <<>>
           /\ stack[1] = BaseStyle
           /\ (pc = "parsed" /\ ~HasOpenTag(text))
                 => \A k \in 1..Len(spans) :
                       /\ spans[k].color = BaseColor
                       /\ spans[k].fontSize = BaseFontSize

\* "<c:r></c></c>a" was resolved: after the surplus </c> the stack is the
\* base frame alone, and the "a" has the base style
C22_Witness ==
    /\ pc = "parsed"
    /\ text = SurplusText
    /\ stack = <<BaseStyle>>
    /\ spans = <<[text |-> <<"a">>, color |-> BaseColor, fontSize |-> BaseFontSize]>>

-----------------------------------------------------------------------------
(* The claims about the render call *)

OverlayOps == {"chooseAssets", "loadImage", "drawOverlay"}

\* the operations logged on a surface
OpsOn(name) == {k \in 1..Len(ops) : ops[k].on = name}

\* C7: a generate_simple call with disableOverlay true draws no overlay
\* instance, on the cover, on a page or on the ending.
C7_DisabledOverlayDrawsNone ==
    toolInput.disableOverlay = Some(TRUE)
        => \A k \in 1..Len(ops) : ops[k].op # "drawOverlay"

\* C8: the texts of the request are the texts drawn: title block k draws
\* request.titleTexts[k], and page q draws request.pages[q].
C8_RequestTextsDrawn ==
    (rpc = "done" /\ IsSome(request.titleTexts) /\ IsSome(request.pages))
        => /\ \A k \in 1..Len(Get(request.titleTexts)) :
                \E m \in OpsOn("cover") :
                    ops[m] = Op("drawRichBlock", "cover", Get(request.titleTexts)[k], k)
           /\ \A q \in 1..Len(Get(request.pages)) :
                \E m \in OpsOn(PageNames[q]) :
                    ops[m] = Op("drawRichBlock", PageNames[q], Get(request.pages)[q], q)

\* a layer that is disabled or whose count is below 1, so that its floor,
\* clamped, is 0
DrawsNothing(layer) == ~layer.enable \/ layer.count.n < layer.count.d

\* C9: a layer that is disabled, or whose instance count is 0 after floor
\* and clamping, selects no asset, loads no image and draws nothing: a
\* surface all of whose layers are such has no overlay operation on it.
C9_SkippedLayerDrawsNothing ==
    (surface # "" /\ \A l \in 1..Len(layers) : DrawsNothing(layers[l]))
        => \A k \in OpsOn(surface) : ops[k].op \notin OverlayOps

\* the ending's layer had the count 1/2 and was passed over, after the cover
\* had got its overlays from the same pool
C9_Witness ==
    /\ rpc = "done" /\ surface = "ending"
    /\ Len(layers) = 1 /\ layers[1].enable /\ layers[1].count = Q(1, 2)
    /\ \E k \in OpsOn("cover") : ops[k].op = "drawOverlay"

\* C10: for a pool that is not empty and an instance count n above its
\* size, the selection holds exactly n assets, each of the pool, those
\* beyond the pool's size repeating the ones before by the index modulo the
\* size.
C10_Wraparound ==
    (rpc \in {"instance", "loaded"} /\ Len(assets) > 0 /\ count > Len(assets))
        => /\ Len(chosenAssets) = count
           /\ \A k \in 1..count :
                /\ \E m \in 1..Len(assets) : chosenAssets[k] = assets[m]
                /\ k > Len(assets)
                     => chosenAssets[k] = chosenAssets[((k - 1) % Len(assets)) + 1]

\* three assets were chosen from a pool of two, shuffled out of its order
C10_Witness ==
    /\ rpc = "instance" /\ Len(assets) = 2 /\ count = 3
    /\ chosenAssets = <<assets[2], assets[1], assets[2]>>

-----------------------------------------------------------------------------
(* The claims about the overlay instances *)

\* the step that draws the loaded instance
DrawsInstance == rpc = "loaded" /\ rpc' = "instance"

\* the position override of the instance that is loaded
LoadedPos == PosOf(layers[layerIdx + 1], inst)

\* the position override of the instance drawn last in the current layer
DrawnPos == PosOf(layers[layerIdx + 1], inst - 1)

Zero == Q(0, 1)

\* C11: a scale, a rotation or an alpha given in the instance's position
\* override, the value 0 included, is the value the instance is drawn with,
\* whether the layer randomizes or not.
C11_ExplicitValuesUsed ==
    [][ DrawsInstance =>
          /\ IsSome(LoadedPos.scale) => Get(drawn').scale = Get(LoadedPos.scale)
          /\ IsSome(LoadedPos.rotation) => Get(drawn').rotDeg = Get(LoadedPos.rotation)
          /\ IsSome(LoadedPos.alpha) => Get(drawn').alpha = Get(LoadedPos.alpha)
      ]_vars

\* an instance of a randomizing layer was drawn with the scale, the rotation
\* and the alpha 0 its position override gives
C11_Witness ==
    /\ rpc = "instance" /\ inst = 1 /\ IsSome(drawn)
    /\ layers[layerIdx + 1].randomize
    /\ DrawnPos.scale = Some(Zero) /\ DrawnPos.rotation = Some(Zero)
    /\ DrawnPos.alpha = Some(Zero)
    /\ Get(drawn).scale = Zero /\ Get(drawn).rotDeg = Zero /\ Get(drawn).alpha = Zero

\* C12: an instance without x and y override in a randomizing layer is
\* placed with 0 <= x <= max(0, canvas width - scaled width) and
\* 0 <= y <= max(0, canvas height - scaled height), and at exactly 0 when
\* the scaled asset is larger than the canvas.
C12_RandomPlaceWithinCanvas ==
    [][ ( /\ DrawsInstance
          /\ layers[layerIdx + 1].randomize
          /\ ~IsSome(LoadedPos.x) /\ ~IsSome(LoadedPos.y) )
        => LET g == Get(drawn')
               W == appcfg.image.width
               H == appcfg.image.height
           IN  /\ QLe(Zero, g.x) /\ QLe(g.x, QMax(Zero, QSub(W, g.w)))
               /\ QLe(Zero, g.y) /\ QLe(g.y, QMax(Zero, QSub(H, g.h)))
               /\ ~QLe(g.w, W) => g.x = Zero
               /\ ~QLe(g.h, H) => g.y = Zero
      ]_vars

\* an instance without position override was drawn higher than the canvas
\* in a randomizing layer: it is placed at y = 0, and at an x above 0
C12_Witness ==
    /\ rpc = "instance" /\ inst >= 1 /\ IsSome(drawn)
    /\ layers[layerIdx + 1].randomize
    /\ DrawnPos = NoPos
    /\ ~QLe(Get(drawn).h, appcfg.image.height)
    /\ Get(drawn).y = Zero
    /\ ~QLe(Get(drawn).x, Zero)

\* the orders the pool's assets can be put in
PermutationsOf(pool) ==
    { [k \in 1..Len(pool) |-> pool[f[k]]] :
        f \in {g \in [1..Len(pool) -> 1..Len(pool)] :
                  \A a, b \in 1..Len(pool) : g[a] = g[b] => a = b} }

\* the layer has a position override that names an asset
NamesAsset(layer) ==
    \E k \in 1..Len(layer.positions) : IsSome(layer.positions[k].asset)

\* the chosen assets are an order of the pool gone through over and again,
\* and the first min(n, |pool|) of them differ from each other
ChosenFromPermutation ==
    /\ Len(chosenAssets) = count
    /\ \E perm \in PermutationsOf(assets) :
          \A k \in 1..count : chosenAssets[k] = perm[((k - 1) % Len(assets)) + 1]
    /\ \A a, b \in 1..Min(count, Len(assets)) :
          chosenAssets[a] = chosenAssets[b] => a = b

\* no two instances that follow each other have the same asset
NoImmediateRepeat ==
    \A k \in 0..(count - 2) :
        AssetOf(layers[layerIdx + 1], assets, chosenAssets, k)
            # AssetOf(layers[layerIdx + 1], assets, chosenAssets, k + 1)

\* C30 as stated: for a pool of distinct assets and an instance count n the
\* chosen assets are chosen[i] = perm[i mod |pool|] for a permutation perm of
\* the pool, the first min(n, |pool|) pairwise distinct, and no two
\* consecutive instances of a layer without asset override use the same
\* asset.
C30_SelectionAsStated ==
    (rpc \in {"instance", "loaded"} /\ Len(assets) > 0)
        => /\ ChosenFromPermutation
           /\ ~NamesAsset(layers[layerIdx + 1]) => NoImmediateRepeat

\* C30 amended: for a pool of distinct assets and an instance count n the
\* chosen assets are chosen[i] = perm[i mod |pool|] for a permutation perm of
\* the pool, the first min(n, |pool|) pairwise distinct; when the pool holds
\* two assets or more, no two consecutive instances of a layer without asset
\* override use the same asset.
C30_Selection ==
    (rpc \in {"instance", "loaded"} /\ Len(assets) > 0)
        => /\ ChosenFromPermutation
           /\ (Len(assets) >= 2 /\ ~NamesAsset(layers[layerIdx + 1]))
                 => NoImmediateRepeat

\* three instances were drawn from a pool of two, shuffled out of its
\* order: the second asset, the first, the second again
C30_Witness ==
    /\ rpc = "instance" /\ inst = 3 /\ count = 3 /\ Len(assets) = 2
    /\ ~NamesAsset(layers[layerIdx + 1])
    /\ Len(ops) >= 6
    /\ [k \in 1..3 |-> ops[Len(ops) - 7 + 2 * k + 1].what]
          = <<assets[2], assets[1], assets[2]>>
    /\ \A k \in 1..3 : ops[Len(ops) - 7 + 2 * k + 1].op = "drawOverlay"

\* C29: an x or a y given in the instance's position override is the
\* coordinate the instance is drawn at, whether the layer randomizes or not
\* and whether the other coordinate is given or not.
C29_ExplicitPlaceUsed ==
    [][ DrawsInstance =>
          /\ IsSome(LoadedPos.x) => Get(drawn').x = Get(LoadedPos.x)
          /\ IsSome(LoadedPos.y) => Get(drawn').y = Get(LoadedPos.y)
      ]_vars

\* the loads, the draws of an instance and the draws of a text among the
\* operations
Loads == {k \in 1..Len(ops) : ops[k].op = "loadImage"}
Draws == {k \in 1..Len(ops) : ops[k].op = "drawOverlay"}
TextDraws == {k \in 1..Len(ops) : ops[k].op = "drawRichBlock"}

\* C28: the loads of overlay assets are strictly sequential: at most one
\* load is in flight, each instance being loaded and drawn before the load
\* of the next is issued, within a layer by increasing instance index, the
\* layers in the order of the list; on every surface all overlay instances
\* are drawn before any text.
C28_LoadsSequential ==
    /\ [] ( /\ \A k \in Loads :
                  \* the load is the one in flight, or its instance was drawn
                  \* before anything else was done
                  /\ k = Len(ops) => rpc \in {"loaded", "error"}
                  /\ k < Len(ops)
                        => ops[k + 1] = [ops[k] EXCEPT !.op = "drawOverlay"]
                  \* the load issued next in the layer is of a later instance
                  /\ (k + 2 <= Len(ops) /\ ops[k + 2].op = "loadImage")
                        => (ops[k + 2].on = ops[k].on /\ ops[k + 2].n > ops[k].n)
            /\ \A j \in Loads \cup Draws : \A k \in TextDraws :
                  ops[j].on = ops[k].on => j < k )
    /\ [][ surface' = surface => layerIdx' \in {layerIdx, layerIdx + 1} ]_vars

\* the first page got two overlay instances, the second loaded after the
\* first was drawn, and its text after both
C28_Witness ==
    /\ rpc = "done"
    /\ \E k \in 1..(Len(ops) - 5) :
          /\ \A m \in k..(k + 5) : ops[m].on = "text_1"
          /\ [m \in 1..6 |-> ops[k + m - 1].op]
                = <<"chooseAssets", "loadImage", "drawOverlay", "loadImage",
                    "drawOverlay", "drawRichBlock">>
          /\ [m \in 1..4 |-> ops[k + m].n] = <<0, 0, 1, 1>>

-----------------------------------------------------------------------------
(* The claims about the files of a render call *)

\* renderAll was entered and has gone through loadTemplateImages
PastTemplates == rpc \notin {"idle", "tool", "renderAll"}

\* C13: when one of the three template images is missing, the render call
\* fails with an error naming a missing path, and neither creates the output
\* directory nor writes a file.
C13_MissingTemplateFails ==
    (PastTemplates /\ present # TemplateImages)
        => /\ rpc = "error"
           /\ \E f \in TemplateImages \ present :
                 error = Some(PathJoin(TemplateBase, <<f>>))
           /\ fsLog = <<>>
           /\ \A k \in 1..Len(ops) : ops[k].op # "writeFile"

\* a call failed on the missing ending.png of a template whose text.png is
\* missing too
C13_Witness ==
    /\ rpc = "error" /\ present = {"cover.png"}
    /\ error = Some(<<"app", "template", "default", "ending.png">>)
    /\ fsLog = <<>> /\ outDir = <<>>

\* C14: no condition of the overlay assets makes a render call fail: with
\* its template images in place the call never ends in an error, an instance
\* whose asset is missing or does not load being passed over.
C14_AssetFailuresSilent ==
    present = TemplateImages => (rpc # "error" /\ error = None)

\* the path of the file of the content page of index p
PagePath(p) == PathJoin(outDir, <<PageFiles[p + 1]>>)

\* the indexes of the configured content pages that have a text
PagesWithText ==
    {p \in 0..(NumPages - 1) : p < Len(appcfg.pages) /\ appcfg.pages[p + 1].text # ""}

\* C26: a render call that succeeds has written text_{p+1} for every
\* configured content page p of 0..6 whose text is not empty, and for no
\* other; the result's texts are the paths of these files, by increasing
\* page index.
C26_EveryPageWritten ==
    rpc = "done"
        => /\ \A p \in 0..(NumPages - 1) :
                 p \in PagesWithText
                   <=> \E k \in 1..Len(fsLog) : fsLog[k] = FsOp("writeFile", PagePath(p))
           /\ Get(result).texts
                 = SelectSeq([q \in 1..NumPages |-> PagePath(q - 1)],
                             LAMBDA f : \E p \in PagesWithText : f = PagePath(p))

\* the files written so far, in the order they were written
Written ==
    LET ws == SelectSeq(fsLog, LAMBDA e : e.op = "writeFile")
    IN  [k \in 1..Len(ws) |-> ws[k].path]

\* the files of a call in the order of its steps: the cover, the pages by
\* their index, the ending
FileOrder ==
    <<PathJoin(outDir, <<"cover.png">>)>>
        \o [q \in 1..NumPages |-> PagePath(q - 1)]
        \o <<PathJoin(outDir, <<"ending.png">>)>>

\* C27: a render call writes its files in the order cover, pages by
\* increasing index, ending, and a call that succeeds has written the cover
\* first and the ending last and returns its result; when a step fails, the
\* files written before remain, no file is written afterwards, and the call
\* ends with one error and no result.
C27_WriteOrderAndFailure ==
    /\ [] ( /\ LET written == Written
                IN  written = SelectSeq(FileOrder,
                                  LAMBDA f : \E k \in 1..Len(written) : written[k] = f)
            /\ rpc = "done"
                  => /\ error = None /\ IsSome(result)
                     /\ Written[1] = FileOrder[1]
                     /\ Written[Len(Written)] = FileOrder[Len(FileOrder)]
                     /\ Written = <<Get(result).cover>> \o Get(result).texts
                                     \o <<Get(result).ending>>
            /\ rpc # "done" => result = None
            /\ rpc = "error" <=> IsSome(error) )
    /\ [][ /\ Len(fsLog') >= Len(fsLog) /\ SubSeq(fsLog', 1, Len(fsLog)) = fsLog
           /\ IsSome(error) => (fsLog' = fsLog /\ error' = error /\ result' = None)
         ]_vars

\* a call failed on an asset of the ending after it had written the cover
\* and the first page
C27_Witness ==
    /\ rpc = "error" /\ surface = "ending"
    /\ error = Some(AssetPath("a1.png"))
    /\ Written = <<PathJoin(outDir, <<"cover.png">>), PagePath(0)>>
    /\ result = None

\* the path lies in the directory, or is the directory
IsUnder(dir, path) == Len(path) >= Len(dir) /\ SubSeq(path, 1, Len(dir)) = dir

\* C16: whatever the titleDir, the directory a render call creates and every
\* file it writes lie inside the configured output directory.
C16_WritesUnderOutputDir ==
    \A k \in 1..Len(fsLog) : IsUnder(OutputBase(appcfg), fsLog[k].path)

-----------------------------------------------------------------------------
(* The claims about concurrent render calls *)

\* the call has its merged configuration
HasConfig(c) == calls[c].rpc \in {"cover", "pages", "ending", "done"}

\* C15: the shared base configuration is never modified by a render call,
\* whatever calls run one after another or interleave, and the merged
\* configuration a call uses is the base with that call's own overrides.
C15_BaseConfigUntouched ==
    /\ heap[1] = config
    /\ \A c \in 1..Len(calls) :
          HasConfig(c) => heap[calls[c].appcfg] = applyOverrides(config, calls[c].request)

\* two calls are in flight with merged configurations that differ from each
\* other and from the base, the first after an earlier call had returned
C15_Witness ==
    /\ Len(calls) = NumCalls
    /\ calls[1].rpc = "pages" /\ calls[2].rpc = "ending"
    /\ heap[calls[1].appcfg] # heap[calls[2].appcfg]
    /\ heap[calls[1].appcfg] # config /\ heap[calls[2].appcfg] # config
    /\ heap[1] = config

=============================================================================
